---------------------------- MODULE Spec2Model ----------------------------
(***************************************************************************)
(* Model of the Uber (NCR) case-study dashboard, src/app.py.               *)
(*                                                                         *)
(* The script is re-executed top to bottom on every interaction: it reads  *)
(* the uploaded bytes through the cached read_csv_bytes, cleans the table  *)
(* with preprocess, renders the tabs and offers the cleaned table for      *)
(* download.                                                               *)
(*                                                                         *)
(* A text is a sequence of one-character strings (a column name is a       *)
(* sequence of words and " " pieces); " " is the only whitespace.  A cell  *)
(* is a record [k, s, n]: k is its kind ("na" missing, "str" text in s,    *)
(* "num" number in n, "dt" timestamp in n, "date" calendar date in n,      *)
(* "bool" flag in n).  A number is held in halves (n = 2 * value), so that *)
(* the median of an even count of whole numbers is exact.  A timestamp is  *)
(* held as ((year * 100 + month) * 100 + day) * 100 + hour.  A table is a  *)
(* sequence of columns [name, cells]; labels may repeat, as in pandas.     *)
(***************************************************************************)
EXTENDS Integers, Sequences, FiniteSets, TLC

VARIABLES
    content,     \* the bytes the user holds: [enc, table]
    uploaded,    \* whether the uploader widget holds the file
    cache,       \* st.cache_data of read_csv_bytes: the contents already read
    pc,          \* position of the current script run
    raw,         \* the table read_csv_bytes returned to this run
    df,          \* the table preprocess returned to this run
    cancelCust,  \* is_cancelled_cust of this run (one flag per row), or <<>>
    cancelDrv,   \* is_cancelled_drv of this run, or <<>>
    hourly,      \* the hourly series of this run (24 counts), or <<>>
    runs,        \* script runs started in this process
    readExec,    \* executions of the body of read_csv_bytes
    cleanExec,   \* executions of preprocess
    tableRuns,   \* runs to which read_csv_bytes returned a table
    trace        \* what the current run has executed, in order

vars == <<content, uploaded, cache, pc, raw, df, cancelCust, cancelDrv, hourly,
          runs, readExec, cleanExec, tableRuns, trace>>

(***************************************************************************)
(* Texts                                                                   *)
(***************************************************************************)
Digits == <<"0", "1", "2", "3", "4", "5", "6", "7", "8", "9">>

IsDigit(c) == \E i \in 1..10 : Digits[i] = c

DigitVal(c) == (CHOOSE i \in 1..10 : Digits[i] = c) - 1

Lowers == <<"a", "c", "d", "e", "f", "i", "l", "m", "n", "o", "p", "r", "s", "t", "u", "v", "y">>

Uppers == <<"A", "C", "D", "E", "F", "I", "L", "M", "N", "O", "P", "R", "S", "T", "U", "V", "Y">>

IsLower(c) == \E i \in 1..Len(Lowers) : Lowers[i] = c

IsUpper(c) == \E i \in 1..Len(Uppers) : Uppers[i] = c

IsCased(c) == IsLower(c) \/ IsUpper(c)

\* str.lower of one character
LowerChar(c) ==
    IF IsUpper(c) THEN Lowers[CHOOSE i \in 1..Len(Uppers) : Uppers[i] = c] ELSE c

\* str.upper of one character
UpperChar(c) ==
    IF IsLower(c) THEN Uppers[CHOOSE i \in 1..Len(Lowers) : Lowers[i] = c] ELSE c

\* str.lower
StrLower(t) == [i \in 1..Len(t) |-> LowerChar(t[i])]

\* str.title: a cased character is upper-cased when it follows an uncased
\* one (or starts the text) and lower-cased otherwise
StrTitle(t) ==
    [i \in 1..Len(t) |->
        IF i > 1 /\ IsCased(t[i - 1]) THEN LowerChar(t[i]) ELSE UpperChar(t[i])]

RECURSIVE LStrip(_)
LStrip(t) == IF t # <<>> /\ Head(t) = " " THEN LStrip(Tail(t)) ELSE t

RECURSIVE RStrip(_)
RStrip(t) ==
    IF t # <<>> /\ t[Len(t)] = " " THEN RStrip(SubSeq(t, 1, Len(t) - 1)) ELSE t

\* str.strip
Strip(t) == RStrip(LStrip(t))

\* the decimal digits of a natural number
RECURSIVE NatText(_)
NatText(v) ==
    IF v < 10 THEN <<Digits[v + 1]>> ELSE NatText(v \div 10) \o <<Digits[(v % 10) + 1]>>

\* the value of a text of decimal digits
RECURSIVE NatValue(_)
NatValue(t) ==
    IF t = <<>> THEN 0
    ELSE 10 * NatValue(SubSeq(t, 1, Len(t) - 1)) + DigitVal(t[Len(t)])

AllDigits(t) == t # <<>> /\ \A i \in 1..Len(t) : IsDigit(t[i])

\* the positions of character c in text t
Positions(t, c) == {i \in 1..Len(t) : t[i] = c}

(***************************************************************************)
(* Cells                                                                   *)
(***************************************************************************)
NA == [k |-> "na", s |-> <<>>, n |-> 0]

Str(t) == [k |-> "str", s |-> t, n |-> 0]

\* a number, given in halves
Num(h) == [k |-> "num", s |-> <<>>, n |-> h]

Whole(v) == Num(2 * v)

Bool(b) == [k |-> "bool", s |-> <<>>, n |-> IF b THEN 1 ELSE 0]

Stamp(ymd, hour) == [k |-> "dt", s |-> <<>>, n |-> ymd * 100 + hour]

DateOf(ymd) == [k |-> "date", s |-> <<>>, n |-> ymd]

IsNA(c) == c.k = "na"

YMD(y, m, d) == (y * 100 + m) * 100 + d

StampYMD(c) == c.n \div 100

StampHour(c) == c.n % 100

YearOf(ymd) == ymd \div 10000

MonthOf(ymd) == (ymd \div 100) % 100

DayOfMonth(ymd) == ymd % 100

\* pandas gives a numeric column the dtype float64 when it holds a missing
\* value or a fraction, and int64 otherwise
IsFloatColumn(cells) ==
    \E i \in 1..Len(cells) : IsNA(cells[i]) \/ (cells[i].k = "num" /\ cells[i].n % 2 = 1)

\* str(x) of a number of an int64 / float64 column
NumText(h, float) ==
    IF float THEN NatText(h \div 2) \o <<".", IF h % 2 = 0 THEN "0" ELSE "5">>
    ELSE NatText(h \div 2)

TwoDigits(v) == IF v < 10 THEN <<"0">> \o NatText(v) ELSE NatText(v)

DateText(ymd) ==
    NatText(YearOf(ymd)) \o <<"-">> \o TwoDigits(MonthOf(ymd)) \o <<"-">>
        \o TwoDigits(DayOfMonth(ymd))

\* Series.astype(str), cell by cell: the text of a cell of a column
AsTypeStr(c, cells) ==
    CASE c.k = "str" -> c.s
      [] c.k = "na" -> <<"n", "a", "n">>
      [] c.k = "num" -> NumText(c.n, IsFloatColumn(cells))
      [] c.k = "bool" -> IF c.n = 1 THEN <<"T", "r", "u", "e">> ELSE <<"F", "a", "l", "s", "e">>
      [] c.k = "date" -> DateText(c.n)
      [] OTHER -> DateText(StampYMD(c))


(***************************************************************************)
(* Tables                                                                  *)
(***************************************************************************)
Column(name, cells) == [name |-> name, cells |-> cells]

\* df.columns, as a set: `name in df.columns`
Has(t, name) == \E i \in 1..Len(t) : t[i].name = name

\* how many columns carry the label
Count(t, name) == Cardinality({i \in 1..Len(t) : t[i].name = name})

\* df[name] for a label that one column carries
Col(t, name) == t[CHOOSE i \in 1..Len(t) : t[i].name = name].cells

\* df[name] is a DataFrame, not a Series, when several columns carry the
\* label; the Series-only calls of preprocess then raise
Ambiguous(t, name) == Count(t, name) > 1

\* df[name] = cells: replaces the column in place, or appends a new one
SetCol(t, name, cells) ==
    IF Has(t, name)
    THEN [i \in 1..Len(t) |-> IF t[i].name = name THEN Column(name, cells) ELSE t[i]]
    ELSE Append(t, Column(name, cells))

NRows(t) == IF t = <<>> THEN 0 ELSE Len(t[1].cells)

ColumnNames(t) == [i \in 1..Len(t) |-> t[i].name]

(***************************************************************************)
(* The column labels preprocess and the tabs know                          *)
(***************************************************************************)
cDate == <<"Date">>
cTime == <<"Time">>
cBookingValue == <<"Booking", " ", "Value">>
cRideDistance == <<"Ride", " ", "Distance">>
cDriverRatings == <<"Driver", " ", "Ratings">>
cCustomerRating == <<"Customer", " ", "Rating">>
cCancelCust == <<"Cancelled", " ", "Rides", " ", "by", " ", "Customer">>
cCancelDrv == <<"Cancelled", " ", "Rides", " ", "by", " ", "Driver">>
cIncomplete == <<"Incomplete", " ", "Rides">>
cPickup == <<"Pickup", " ", "Location">>
cDrop == <<"Drop", " ", "Location">>
cStatus == <<"Booking", " ", "Status">>
cHour == <<"Hour">>
cDay == <<"Day">>
cDayOfWeek == <<"DayOfWeek">>
cMonth == <<"Month">>
cRoute == <<"Route">>
cIsCompleted == <<"Is_Completed">>
cIsCancelled == <<"Is_Cancelled">>
cIsIncomplete == <<"Is_Incomplete">>
aDate == <<"date">>
aTime == <<"time">>
aBookingValue == <<"booking", " ", "value">>

\* the columns of the numeric casts, in the order of the loop
NumericCols ==
    <<cBookingValue, cRideDistance, cDriverRatings, cCustomerRating,
      cCancelCust, cCancelDrv, cIncomplete>>

\* the columns of the median fill, in the order of the loop
MedianCols == <<cDriverRatings, cCustomerRating, cBookingValue, cRideDistance>>

(***************************************************************************)
(* preprocess: column names                                                *)
(***************************************************************************)
\* df.columns = [c.strip() for c in df.columns]
TrimNames(t) == [i \in 1..Len(t) |-> Column(Strip(t[i].name), t[i].cells)]

\* if alias in df.columns and canon not in df.columns: df.rename(...)
RenameAlias(t, alias, canon) ==
    IF Has(t, alias) /\ ~Has(t, canon)
    THEN [i \in 1..Len(t) |-> IF t[i].name = alias THEN Column(canon, t[i].cells) ELSE t[i]]
    ELSE t

NormaliseNames(t) ==
    RenameAlias(RenameAlias(RenameAlias(TrimNames(t), aDate, cDate), aTime, cTime),
                aBookingValue, cBookingValue)

(***************************************************************************)
(* preprocess: dates and hours                                             *)
(***************************************************************************)
\* the date a bare time of day is given by the parser (the day of the run)
Today == YMD(2024, 3, 1)

LeapYear(y) == (y % 4 = 0 /\ y % 100 # 0) \/ y % 400 = 0

DaysIn(y, m) ==
    IF m = 2 THEN (IF LeapYear(y) THEN 29 ELSE 28)
    ELSE IF m \in {4, 6, 9, 11} THEN 30 ELSE 31

\* "H:MM" or "HH:MM", a time of day
IsTimeText(t) ==
    /\ Cardinality(Positions(t, ":")) = 1
    /\ LET p == CHOOSE i \in 1..Len(t) : t[i] = ":"
           h == SubSeq(t, 1, p - 1)
           m == SubSeq(t, p + 1, Len(t))
       IN /\ AllDigits(h) /\ Len(h) <= 2 /\ NatValue(h) <= 23
          /\ AllDigits(m) /\ Len(m) <= 2 /\ NatValue(m) <= 59

TimeTextHour(t) ==
    NatValue(SubSeq(t, 1, (CHOOSE i \in 1..Len(t) : t[i] = ":") - 1))

\* "YYYY-MM-DD", a calendar date
IsDateText(t) ==
    /\ Len(t) = 10 /\ t[5] = "-" /\ t[8] = "-"
    /\ AllDigits(SubSeq(t, 1, 4)) /\ AllDigits(SubSeq(t, 6, 7)) /\ AllDigits(SubSeq(t, 9, 10))
    /\ LET y == NatValue(SubSeq(t, 1, 4))
           m == NatValue(SubSeq(t, 6, 7))
           d == NatValue(SubSeq(t, 9, 10))
       IN m \in 1..12 /\ d \in 1..DaysIn(y, m)

DateTextYMD(t) ==
    YMD(NatValue(SubSeq(t, 1, 4)), NatValue(SubSeq(t, 6, 7)), NatValue(SubSeq(t, 9, 10)))

\* a parser that takes texts only and coerces every other value to missing
ToDatetimeTextOnly(c) ==
    CASE c.k = "str" /\ IsDateText(c.s) -> Stamp(DateTextYMD(c.s), 0)
      [] c.k = "str" /\ IsTimeText(c.s) -> Stamp(Today, TimeTextHour(c.s))
      [] OTHER -> NA

\* pd.to_datetime(x, errors="coerce") of one cell: a text that is neither a
\* date nor a time of day becomes missing, a number is a count of
\* nanoseconds since 1970-01-01, a timestamp is kept
ToDatetime(c) ==
    CASE c.k = "dt" -> c
      [] c.k = "date" -> Stamp(c.n, 0)
      [] c.k = "num" -> Stamp(YMD(1970, 1, 1), 0)
      [] c.k = "str" /\ IsDateText(c.s) -> Stamp(DateTextYMD(c.s), 0)
      [] c.k = "str" /\ IsTimeText(c.s) -> Stamp(Today, TimeTextHour(c.s))
      [] OTHER -> NA

ToDatetimeAll(cells) == [i \in 1..Len(cells) |-> ToDatetime(cells[i])]

\* if "Date" in df.columns: df["Date"] = pd.to_datetime(df["Date"], errors="coerce")
ParseDateRaises(t) == Ambiguous(t, cDate)

ParseDate(t) ==
    IF Has(t, cDate) THEN SetCol(t, cDate, ToDatetimeAll(Col(t, cDate))) ELSE t

\* the extraction had the regex been matched at the start of the text
\* (str.match semantics) instead of searched
ExtractHourAnchored(t) ==
    IF t = <<>> \/ ~IsDigit(t[1]) THEN NA
    ELSE Whole(NatValue(SubSeq(t, 1, IF Len(t) > 1 /\ IsDigit(t[2]) THEN 2 ELSE 1)))

\* str.extract(r'(\d{1,2})(?::\d{2})?')[0].astype(float).astype("Int64") of
\* one text: the regex is searched, so the match starts at the first digit
\* of the text and takes a second digit when one follows
ExtractHour(t) ==
    LET ds == {i \in 1..Len(t) : IsDigit(t[i])}
    IN IF ds = {} THEN NA
       ELSE LET p == CHOOSE i \in ds : \A j \in ds : i <= j
                q == IF p < Len(t) /\ IsDigit(t[p + 1]) THEN p + 1 ELSE p
            IN Whole(NatValue(SubSeq(t, p, q)))

\* t.dt.hour
HourOfStamps(stamps) ==
    [i \in 1..Len(stamps) |-> IF IsNA(stamps[i]) THEN NA ELSE Whole(StampHour(stamps[i]))]

\* df["Time"].astype(str).str.extract(...)
HourOfTexts(cells) == [i \in 1..Len(cells) |-> ExtractHour(AsTypeStr(cells[i], cells))]

\* not t.isna().all()
SomeParsed(stamps) == \E i \in 1..Len(stamps) : ~IsNA(stamps[i])

HourCells(cells) ==
    IF SomeParsed(ToDatetimeAll(cells)) THEN HourOfStamps(ToDatetimeAll(cells))
    ELSE HourOfTexts(cells)

DeriveHourRaises(t) == Ambiguous(t, cTime)

DeriveHour(t) ==
    IF Has(t, cTime) THEN SetCol(t, cHour, HourCells(Col(t, cTime))) ELSE t

(***************************************************************************)
(* preprocess: numeric casts and the median fill                           *)
(***************************************************************************)
AllZeros(t) == \A i \in 1..Len(t) : t[i] = "0"

\* the number a text spells, after the parser has dropped the surrounding
\* blanks: digits, or digits "." digits.  Of the fractions only .0 and .5
\* are representable in halves; the inputs of the model hold no other.
IsNumberText(t) ==
    LET u == Strip(t)
    IN \/ AllDigits(u)
       \/ /\ Cardinality(Positions(u, ".")) = 1
          /\ LET p == CHOOSE i \in 1..Len(u) : u[i] = "."
                 f == SubSeq(u, p + 1, Len(u))
             IN /\ AllDigits(SubSeq(u, 1, p - 1))
                /\ \/ AllZeros(f)
                   \/ (f # <<>> /\ Head(f) = "5" /\ AllZeros(Tail(f)))

NumberTextHalves(t) ==
    LET u == Strip(t)
    IN IF AllDigits(u) THEN 2 * NatValue(u)
       ELSE LET p == CHOOSE i \in 1..Len(u) : u[i] = "."
                f == SubSeq(u, p + 1, Len(u))
            IN 2 * NatValue(SubSeq(u, 1, p - 1)) + (IF f # <<>> /\ Head(f) = "5" THEN 1 ELSE 0)

\* pd.to_numeric(x, errors="coerce") of one cell: a text that spells no
\* number becomes missing, a number is kept
ToNumeric(c) ==
    CASE c.k = "str" -> IF IsNumberText(c.s) THEN Num(NumberTextHalves(c.s)) ELSE NA
      [] OTHER -> c

ToNumericAll(cells) == [i \in 1..Len(cells) |-> ToNumeric(cells[i])]

\* one pass of the loop of the numeric casts, for column NumericCols[j]
CastColumn(t, name) ==
    IF Has(t, name) THEN SetCol(t, name, ToNumericAll(Col(t, name))) ELSE t

RECURSIVE CastFrom(_, _)
CastFrom(t, j) ==
    IF j > Len(NumericCols) THEN t ELSE CastFrom(CastColumn(t, NumericCols[j]), j + 1)

NumericCasts(t) == CastFrom(t, 1)

NumericCastsRaises(t) == \E j \in 1..Len(NumericCols) : Ambiguous(t, NumericCols[j])

\* the numbers of a column in ascending order
RECURSIVE SortedHalves(_, _)
SortedHalves(cells, left) ==
    IF left = {} THEN <<>>
    ELSE LET i == CHOOSE a \in left : \A b \in left : cells[a].n <= cells[b].n
         IN <<cells[i].n>> \o SortedHalves(cells, left \ {i})

\* a median that takes the upper of the two middle values of an even count
MedianUpperMiddle(cells) ==
    LET present == {i \in 1..Len(cells) : ~IsNA(cells[i])}
        v == SortedHalves(cells, present)
    IN IF Len(v) = 0 THEN NA ELSE Num(v[Len(v) \div 2 + 1])

\* Series.median(): of the values present; missing when there is none
Median(cells) ==
    LET present == {i \in 1..Len(cells) : ~IsNA(cells[i])}
        v == SortedHalves(cells, present)
        k == Len(v)
    IN IF k = 0 THEN NA
       ELSE IF k % 2 = 1 THEN Num(v[(k + 1) \div 2])
       ELSE Num((v[k \div 2] + v[k \div 2 + 1]) \div 2)

\* Series.fillna(m): a missing m fills nothing
FillNa(cells, m) == [i \in 1..Len(cells) |-> IF IsNA(cells[i]) THEN m ELSE cells[i]]

FillColumn(t, name) ==
    IF Has(t, name) THEN SetCol(t, name, FillNa(Col(t, name), Median(Col(t, name)))) ELSE t

RECURSIVE FillFrom(_, _)
FillFrom(t, j) ==
    IF j > Len(MedianCols) THEN t ELSE FillFrom(FillColumn(t, MedianCols[j]), j + 1)

MedianFill(t) == FillFrom(t, 1)

(***************************************************************************)
(* preprocess: feature engineering                                         *)
(***************************************************************************)
DayNames == <<"Sunday", "Monday", "Tuesday", "Wednesday", "Thursday", "Friday", "Saturday">>

MonthShift == <<0, 3, 2, 5, 0, 3, 5, 1, 4, 6, 2, 4>>

\* the day of the week of a Gregorian date, 0 = Sunday
WeekDay(ymd) ==
    LET y == IF MonthOf(ymd) < 3 THEN YearOf(ymd) - 1 ELSE YearOf(ymd)
    IN (y + y \div 4 - y \div 100 + y \div 400 + MonthShift[MonthOf(ymd)] + DayOfMonth(ymd)) % 7

\* df["Date"].dt.date
DayCells(stamps) ==
    [i \in 1..Len(stamps) |-> IF IsNA(stamps[i]) THEN NA ELSE DateOf(StampYMD(stamps[i]))]

\* df["Date"].dt.day_name()
DayOfWeekCells(stamps) ==
    [i \in 1..Len(stamps) |->
        IF IsNA(stamps[i]) THEN NA ELSE Str(<<DayNames[WeekDay(StampYMD(stamps[i])) + 1]>>)]

\* df["Date"].dt.to_period("M").astype(str)
MonthCells(stamps) ==
    [i \in 1..Len(stamps) |->
        IF IsNA(stamps[i]) THEN Str(<<"N", "a", "T">>)
        ELSE Str(NatText(YearOf(StampYMD(stamps[i]))) \o <<"-">>
                 \o TwoDigits(MonthOf(StampYMD(stamps[i]))))]

DateFeatures(t) ==
    IF Has(t, cDate)
    THEN SetCol(SetCol(SetCol(t, cDay, DayCells(Col(t, cDate))),
                       cDayOfWeek, DayOfWeekCells(Col(t, cDate))),
                cMonth, MonthCells(Col(t, cDate)))
    ELSE t

\* the separator of line 74, character by character as the file holds it:
\* U+00E2, U+2020, U+2019 between two blanks
RouteSep == <<" ", "U+00E2", "U+2020", "U+2019", " ">>

Unknown == <<"U", "n", "k", "n", "o", "w", "n">>

\* Series.fillna("Unknown") of one cell
OrUnknown(c) == IF IsNA(c) THEN Str(Unknown) ELSE c

\* str + str concatenates; a number in either operand raises TypeError
RouteCells(pick, drop) ==
    [i \in 1..Len(pick) |-> Str(OrUnknown(pick[i]).s \o RouteSep \o OrUnknown(drop[i]).s)]

RouteWanted(t) == Has(t, cPickup) /\ Has(t, cDrop)

RouteRaises(t) ==
    /\ RouteWanted(t)
    /\ \/ Ambiguous(t, cPickup) \/ Ambiguous(t, cDrop)
       \/ \E i \in 1..NRows(t) :
             \/ OrUnknown(Col(t, cPickup)[i]).k # "str"
             \/ OrUnknown(Col(t, cDrop)[i]).k # "str"

DeriveRoute(t) ==
    IF RouteWanted(t) THEN SetCol(t, cRoute, RouteCells(Col(t, cPickup), Col(t, cDrop)))
    ELSE t

(***************************************************************************)
(* preprocess: Booking Status                                              *)
(***************************************************************************)
Completed == <<"C", "o", "m", "p", "l", "e", "t", "e", "d">>
Cancelled == <<"C", "a", "n", "c", "e", "l", "l", "e", "d">>
Canceled == <<"C", "a", "n", "c", "e", "l", "e", "d">>
Incomplete == <<"I", "n", "c", "o", "m", "p", "l", "e", "t", "e">>

\* the normalisation without the spelling fix
ReplaceNothing(t) == t

\* .replace({"Canceled": "Cancelled"}): whole values only
ReplaceCanceled(t) == IF t = Canceled THEN Cancelled ELSE t

\* df["Booking Status"].astype(str).str.title().replace(...)
StatusCells(cells) ==
    [i \in 1..Len(cells) |-> Str(ReplaceCanceled(StrTitle(AsTypeStr(cells[i], cells))))]

\* df["Booking Status"] == value
FlagCells(cells, value) == [i \in 1..Len(cells) |-> Bool(cells[i].s = value)]

StatusRaises(t) == Ambiguous(t, cStatus)

NormaliseStatus(t) ==
    IF Has(t, cStatus)
    THEN LET st == StatusCells(Col(t, cStatus))
         IN SetCol(SetCol(SetCol(SetCol(t, cStatus, st),
                                 cIsCompleted, FlagCells(st, Completed)),
                          cIsCancelled, FlagCells(st, Cancelled)),
                   cIsIncomplete, FlagCells(st, Incomplete))
    ELSE t

(***************************************************************************)
(* preprocess as a whole: [ok, t], ok = FALSE when a step raised           *)
(***************************************************************************)
Raised == [ok |-> FALSE, t |-> <<>>]

Returned(t) == [ok |-> TRUE, t |-> t]

preprocess(t0) ==
    LET t1 == NormaliseNames(t0)
    IN IF ParseDateRaises(t1) THEN Raised
       ELSE LET t2 == ParseDate(t1)
       IN IF DeriveHourRaises(t2) THEN Raised
       ELSE LET t3 == DeriveHour(t2)
       IN IF NumericCastsRaises(t3) THEN Raised
       ELSE LET t4 == DateFeatures(MedianFill(NumericCasts(t3)))
       IN IF RouteRaises(t4) THEN Raised
       ELSE LET t5 == DeriveRoute(t4)
       IN IF StatusRaises(t5) THEN Raised
       ELSE Returned(NormaliseStatus(t5))

(***************************************************************************)
(* read_csv_bytes                                                          *)
(***************************************************************************)
\* pd.read_csv(io.BytesIO(b)): the table, when the bytes decode as UTF-8
ReadDefaultOk(c) == c.enc = "utf8"

\* pd.read_csv(io.BytesIO(b), encoding="latin-1"): the table, unless the
\* bytes are no delimited text at all
ReadLatin1Ok(c) == c.enc \in {"utf8", "latin1"}

(***************************************************************************)
(* The tabs                                                                *)
(***************************************************************************)
\* the tokens of lines 245 and 249
NotCancelledTokens ==
    { <<"0">>, <<"0", ".", "0">>, <<"n", "a", "n">>, <<"n", "o", "n", "e">>, <<>>,
      <<"f", "a", "l", "s", "e">> }

\* col = df[name].astype(str).str.strip().str.lower();
\* (~col.isin([...])) & col.notna()
IsCancelledCells(cells) ==
    [i \in 1..Len(cells) |-> StrLower(Strip(AsTypeStr(cells[i], cells))) \notin NotCancelledTokens]

CancelFlags(t, name) == IF Has(t, name) THEN IsCancelledCells(Col(t, name)) ELSE <<>>

\* df.groupby("Hour").size().reindex(range(24), fill_value=0); entry h + 1
\* is the count of hour h
HourlyCounts(t) ==
    IF Has(t, cHour)
    THEN [h1 \in 1..24 |->
            Cardinality({i \in 1..NRows(t) : Col(t, cHour)[i] = Whole(h1 - 1)})]
    ELSE <<>>

(***************************************************************************)
(* Bounds and inputs                                                       *)
(***************************************************************************)
MaxRuns == 3
MaxTimeRows == 2
MaxNumRows == 4
MaxCancelRows == 2
MaxStatusRows == 2
MaxRouteRows == 2
MaxDateRows == 2

\* every column of at most r cells drawn from S
Cols(S, r) == UNION {[1..k -> S] : k \in 0..r}

TimeTexts ==
    { <<"1", "4", ":", "3", "0">>,
      <<"9", ":", "0", "5">>,
      <<"2", "p", "m", "-", "i", "s", "h">>,
      <<"1", "4", ":", "3", "0", " ", "I", "S", "T">>,
      <<"2", "5", ":", "0", "0">>,
      <<"a", "t", " ", "7">>,
      <<"n", "o", "o", "n">> }

TimeTables == {<<Column(cTime, c)>> : c \in Cols({Str(x) : x \in TimeTexts} \cup {NA}, MaxTimeRows)}

NumberTexts == { <<"1", "0">>, <<"2", "0">>, <<"4", "0">>, <<"a", "b", "c">> }

NumberTables ==
    {<<Column(cBookingValue, c)>> : c \in Cols({Str(x) : x \in NumberTexts} \cup {NA}, MaxNumRows)}
    \cup {<<Column(cRideDistance, c)>> : c \in Cols({Whole(10), Whole(20), Whole(40), NA}, MaxNumRows)}

CancelTexts ==
    { <<"0">>, <<"0", ".", "0">>, <<"0", ".", "0", "0">>, <<" ", "0", " ">>, <<"1">>,
      <<"Y", "e", "s">>, <<"F", "a", "l", "s", "e">> }

CancelTables ==
    {<<Column(cCancelCust, c)>> :
        c \in Cols({Str(x) : x \in CancelTexts} \cup {NA}, MaxCancelRows)
              \cup Cols({Whole(0), Whole(1), NA}, MaxCancelRows)}
    \cup {<<Column(cCancelDrv, c), Column(cCancelCust, c)>> :
        c \in Cols({Str(<<"Y", "e", "s">>), Str(<<"0">>), NA}, MaxCancelRows)}

StatusTexts ==
    { <<"c", "a", "n", "c", "e", "l", "e", "d">>,
      <<"C", "A", "N", "C", "E", "L", "E", "D">>,
      <<"C", "a", "n", "c", "e", "l", "l", "e", "d">>,
      <<"c", "o", "m", "p", "l", "e", "t", "e", "d">>,
      <<"I", "n", "c", "o", "m", "p", "l", "e", "t", "e">>,
      <<"n", "o", " ", "d", "r", "i", "v", "e", "r">> }

StatusTables ==
    {<<Column(cStatus, c)>> : c \in Cols({Str(x) : x \in StatusTexts} \cup {NA}, MaxStatusRows)}

RouteTables ==
    UNION {
        {<<Column(cPickup, p), Column(cDrop, d)>> :
            p \in [1..k -> {Str(<<"A">>), NA}] \cup [1..k -> {Whole(1), NA}],
            d \in [1..k -> {Str(<<"B">>), NA}]} : k \in 0..MaxRouteRows}

DateTexts ==
    { <<"2", "0", "2", "4", "-", "0", "2", "-", "2", "9">>,
      <<"2", "0", "2", "3", "-", "1", "2", "-", "3", "1">>,
      <<"2", "0", "2", "3", "-", "0", "2", "-", "3", "0">> }

DateTables == {<<Column(cDate, c)>> : c \in Cols({Str(x) : x \in DateTexts} \cup {NA}, MaxDateRows)}

\* one-row tables over every choice of these columns, labels as a CSV
\* header may spell them
HeaderColumns ==
    << Column(cDate, <<Str(<<"2", "0", "2", "4", "-", "0", "2", "-", "2", "9">>)>>),
       Column(<<" ", "Date">>, <<Str(<<"b", "a", "d">>)>>),
       Column(aDate, <<Str(<<"2", "0", "2", "3", "-", "1", "2", "-", "3", "1">>)>>),
       Column(cTime, <<Str(<<"1", "4", ":", "3", "0">>)>>),
       Column(<<"time", " ">>, <<Str(<<"9", ":", "0", "5">>)>>),
       Column(cPickup, <<Str(<<"A">>)>>),
       Column(cDrop, <<NA>>),
       Column(cStatus, <<Str(<<"c", "a", "n", "c", "e", "l", "e", "d">>)>>),
       Column(aBookingValue, <<Str(<<"1", "0">>)>>),
       Column(cBookingValue, <<Str(<<"a", "b", "c">>)>>) >>

RECURSIVE Pick(_, _)
Pick(cols, idx) ==
    IF idx = {} THEN <<>>
    ELSE LET i == CHOOSE a \in idx : \A b \in idx : a <= b
         IN <<cols[i]>> \o Pick(cols, idx \ {i})

HeaderTables == {Pick(HeaderColumns, idx) : idx \in SUBSET (1..Len(HeaderColumns))}

Inputs ==
    TimeTables \cup NumberTables \cup CancelTables \cup StatusTables \cup RouteTables
        \cup DateTables \cup HeaderTables

Contents ==
    {[enc |-> "utf8", table |-> t] : t \in Inputs}
    \cup {[enc |-> "latin1", table |-> t] : t \in RouteTables}
    \cup {[enc |-> "bad", table |-> <<>>]}

(***************************************************************************)
(* The script, run top to bottom on every interaction                      *)
(***************************************************************************)
Resting == {"new", "done", "stopped", "raised"}

Init ==
    /\ content \in Contents
    /\ uploaded = FALSE
    /\ cache = {}
    /\ pc = "new"
    /\ raw = <<>>
    /\ df = <<>>
    /\ cancelCust = <<>>
    /\ cancelDrv = <<>>
    /\ hourly = <<>>
    /\ runs = 0
    /\ readExec = 0
    /\ cleanExec = 0
    /\ tableRuns = 0
    /\ trace = <<>>

\* the user drops the file on the uploader
Upload ==
    /\ pc \in Resting /\ pc # "new" /\ ~uploaded
    /\ uploaded' = TRUE
    /\ UNCHANGED <<content, cache, pc, raw, df, cancelCust, cancelDrv, hourly,
                   runs, readExec, cleanExec, tableRuns, trace>>

\* the user clears the uploader
Remove ==
    /\ pc \in Resting /\ uploaded
    /\ uploaded' = FALSE
    /\ UNCHANGED <<content, cache, pc, raw, df, cancelCust, cancelDrv, hourly,
                   runs, readExec, cleanExec, tableRuns, trace>>

\* an interaction (or the first page load) starts the script again
Rerun ==
    /\ pc \in Resting /\ runs < MaxRuns
    /\ pc' = "uploader"
    /\ runs' = runs + 1
    /\ raw' = <<>> /\ df' = <<>> /\ cancelCust' = <<>> /\ cancelDrv' = <<>>
    /\ hourly' = <<>> /\ trace' = <<>>
    /\ UNCHANGED <<content, uploaded, cache, readExec, cleanExec, tableRuns>>

\* lines 139-142: without a file the script stops
Uploader ==
    /\ pc = "uploader"
    /\ pc' = IF uploaded THEN "read" ELSE "stopped"
    /\ UNCHANGED <<content, uploaded, cache, raw, df, cancelCust, cancelDrv, hourly,
                   runs, readExec, cleanExec, tableRuns, trace>>

\* line 146 with the bytes in the cache: the stored table, no execution
ReadCached ==
    /\ pc = "read" /\ content \in cache
    /\ raw' = content.table
    /\ trace' = Append(trace, "hit")
    /\ tableRuns' = tableRuns + 1
    /\ pc' = "clean"
    /\ UNCHANGED <<content, uploaded, cache, df, cancelCust, cancelDrv, hourly,
                   runs, readExec, cleanExec>>

\* read_csv_bytes without the st.cache_data decorator
ReadDefaultUncached ==
    /\ pc = "read" /\ content \notin cache
    /\ readExec' = readExec + 1
    /\ trace' = Append(trace, "default")
    /\ IF ReadDefaultOk(content)
       THEN /\ raw' = content.table /\ tableRuns' = tableRuns + 1 /\ pc' = "clean"
       ELSE /\ raw' = raw /\ tableRuns' = tableRuns /\ pc' = "latin1"
    /\ UNCHANGED <<content, uploaded, cache, df, cancelCust, cancelDrv, hourly, runs,
                   cleanExec>>

\* lines 22-23: the body of read_csv_bytes runs, default decoding
ReadDefault ==
    /\ pc = "read" /\ content \notin cache
    /\ readExec' = readExec + 1
    /\ trace' = Append(trace, "default")
    /\ IF ReadDefaultOk(content)
       THEN /\ raw' = content.table /\ cache' = cache \cup {content}
            /\ tableRuns' = tableRuns + 1 /\ pc' = "clean"
       ELSE /\ raw' = raw /\ cache' = cache
            /\ tableRuns' = tableRuns /\ pc' = "latin1"
    /\ UNCHANGED <<content, uploaded, df, cancelCust, cancelDrv, hourly, runs, cleanExec>>

\* lines 24-25: the retry; its exception leaves read_csv_bytes uncached
ReadLatin1 ==
    /\ pc = "latin1"
    /\ trace' = Append(trace, "latin1")
    /\ IF ReadLatin1Ok(content)
       THEN /\ raw' = content.table /\ cache' = cache \cup {content}
            /\ tableRuns' = tableRuns + 1 /\ pc' = "clean"
       ELSE /\ raw' = raw /\ cache' = cache
            /\ tableRuns' = tableRuns /\ pc' = "readfailed"
    /\ UNCHANGED <<content, uploaded, df, cancelCust, cancelDrv, hourly, runs,
                   readExec, cleanExec>>

\* the error handler without its st.stop(): the script goes on to line 151
ReadFailedNoStop ==
    /\ pc = "readfailed"
    /\ trace' = Append(trace, "error")
    /\ pc' = "clean"
    /\ UNCHANGED <<content, uploaded, cache, raw, df, cancelCust, cancelDrv, hourly,
                   runs, readExec, cleanExec, tableRuns>>

\* lines 147-149: st.error, st.stop
ReadFailed ==
    /\ pc = "readfailed"
    /\ trace' = Append(trace, "error")
    /\ pc' = "stopped"
    /\ UNCHANGED <<content, uploaded, cache, raw, df, cancelCust, cancelDrv, hourly,
                   runs, readExec, cleanExec, tableRuns>>

\* line 151: df = preprocess(raw); an exception ends the run
Clean ==
    /\ pc = "clean"
    /\ cleanExec' = cleanExec + 1
    /\ trace' = Append(trace, "clean")
    /\ IF preprocess(raw).ok
       THEN df' = preprocess(raw).t /\ pc' = "rides"
       ELSE df' = df /\ pc' = "raised"
    /\ UNCHANGED <<content, uploaded, cache, raw, cancelCust, cancelDrv, hourly,
                   runs, readExec, tableRuns>>

\* lines 156-227: the overview and rides tabs
TabRides ==
    /\ pc = "rides"
    /\ hourly' = HourlyCounts(df)
    /\ trace' = Append(trace, "tabs")
    /\ pc' = "cancel"
    /\ UNCHANGED <<content, uploaded, cache, raw, df, cancelCust, cancelDrv,
                   runs, readExec, cleanExec, tableRuns>>

\* lines 232-307: the cancellations tab and the tabs after it
TabCancel ==
    /\ pc = "cancel"
    /\ cancelCust' = CancelFlags(df, cCancelCust)
    /\ cancelDrv' = CancelFlags(df, cCancelDrv)
    /\ pc' = "export"
    /\ UNCHANGED <<content, uploaded, cache, raw, df, hourly, runs, readExec,
                   cleanExec, tableRuns, trace>>

\* lines 312-316: the download of the cleaned table
Export ==
    /\ pc = "export"
    /\ trace' = Append(trace, "export")
    /\ pc' = "done"
    /\ UNCHANGED <<content, uploaded, cache, raw, df, cancelCust, cancelDrv, hourly,
                   runs, readExec, cleanExec, tableRuns>>

Next ==
    \/ Upload \/ Remove \/ Rerun \/ Uploader \/ ReadCached \/ ReadDefault \/ ReadLatin1
    \/ ReadFailed \/ Clean \/ TabRides \/ TabCancel \/ Export

Spec == Init /\ [][Next]_vars

(***************************************************************************)
(* Properties                                                              *)
(***************************************************************************)
\* preprocess has just returned its table to the run
Cleaned == pc = "rides"

\* the input table under the labels preprocess gives its columns
RawN == NormaliseNames(raw)

\* the input table has a column whose trimmed label is `name`
RawLabel(name) == \E i \in 1..Len(raw) : Strip(raw[i].name) = name

Arrow == <<" ", "U+2192", " ">>

RECURSIVE SumTo(_, _)
SumTo(f, k) == IF k = 0 THEN 0 ELSE f[k] + SumTo(f, k - 1)

\* C1: preprocess never raises, whatever the input table, and adds Hour
\* only if Time (or time) is present, Day, DayOfWeek and Month only if Date
\* (or date) is, Route only if both location columns are, and the three
\* Is_ flags only if Booking Status is.
C1_NeverRaisesNoSpuriousColumn ==
    /\ pc # "raised"
    /\ Cleaned =>
        /\ Has(df, cHour) => RawLabel(cTime) \/ RawLabel(aTime)
        /\ Has(df, cDay) \/ Has(df, cDayOfWeek) \/ Has(df, cMonth)
              => RawLabel(cDate) \/ RawLabel(aDate)
        /\ Has(df, cRoute) => RawLabel(cPickup) /\ RawLabel(cDrop)
        /\ Has(df, cIsCompleted) \/ Has(df, cIsCancelled) \/ Has(df, cIsIncomplete)
              => RawLabel(cStatus)

\* the text of cell i of the input column `name`
RawText(name, i) == AsTypeStr(Col(RawN, name)[i], Col(RawN, name))

\* the rule of the cancellation tokens, applied to the input cell
TokenRule(name, flags) ==
    Has(RawN, name) =>
        /\ Len(flags) = NRows(raw)
        /\ \A i \in 1..Len(flags) :
              flags[i] <=> StrLower(Strip(RawText(name, i))) \notin NotCancelledTokens

\* C2: in the two cancellation-by-actor rates a row counts as not
\* cancelled exactly when its cell, trimmed and lower-cased, is one of
\* "0", "0.0", "nan", "none", "" and "false"; every other value, "1" and
\* "Yes" among them, counts as cancelled.
C2_TokenRuleOnInput ==
    pc \in {"export", "done"} =>
        TokenRule(cCancelCust, cancelCust) /\ TokenRule(cCancelDrv, cancelDrv)

\* the input Time column holds a value that parses as a time
TimeParsed == \E i \in 1..NRows(raw) : ~IsNA(ToDatetime(Col(RawN, cTime)[i]))

\* the first run of one or two digits of a text, wherever it starts
FirstDigits(t) ==
    IF \A i \in 1..Len(t) : ~IsDigit(t[i]) THEN NA
    ELSE LET p == CHOOSE i \in 1..Len(t) :
                    IsDigit(t[i]) /\ \A j \in 1..(i - 1) : ~IsDigit(t[j])
         IN IF p < Len(t) /\ IsDigit(t[p + 1])
            THEN Whole(10 * DigitVal(t[p]) + DigitVal(t[p + 1]))
            ELSE Whole(DigitVal(t[p]))

\* the leading one or two digits of a text when all that follows them is
\* a ":MM" suffix or nothing, up to the next blank
LeadingHour(t) ==
    LET w == IF Positions(t, " ") = {} THEN t
             ELSE SubSeq(t, 1, (CHOOSE i \in Positions(t, " ") :
                                    \A j \in Positions(t, " ") : i <= j) - 1)
        d == IF Positions(w, ":") = {} THEN w
             ELSE SubSeq(w, 1, (CHOOSE i \in Positions(w, ":") :
                                    \A j \in Positions(w, ":") : i <= j) - 1)
        m == SubSeq(w, Len(d) + 2, Len(w))
    IN IF AllDigits(d) /\ Len(d) <= 2 /\ (Len(w) = Len(d) \/ (AllDigits(m) /\ Len(m) = 2))
       THEN Whole(NatValue(d)) ELSE NA

\* the Hour of a column of which some value parses
ParsedHourRule ==
    \A i \in 1..NRows(raw) :
        Col(df, cHour)[i] =
            IF Col(RawN, cTime)[i].k = "str" /\ IsTimeText(Col(RawN, cTime)[i].s)
            THEN Whole(TimeTextHour(Col(RawN, cTime)[i].s))
            ELSE NA

\* C3 as stated: when a Time value parses, each Hour is the hour of the
\* parsed time; when none parses, each Hour is the leading one or two
\* digit number that precedes an optional ":MM" suffix, and is missing
\* where there is none, so that "14:30 IST" gives 14 and "2pm-ish" a
\* missing hour.
C3_LeadingHourAsStated ==
    Cleaned /\ Has(RawN, cTime) =>
        IF TimeParsed THEN ParsedHourRule
        ELSE \A i \in 1..NRows(raw) : Col(df, cHour)[i] = LeadingHour(RawText(cTime, i))

\* C3, amended: when a Time value parses, each Hour is the hour of the
\* row's parsed time (missing for a row that does not parse); when none
\* parses, each Hour is the first run of one or two digits found anywhere
\* in the row's text, and is missing only for a text without a digit:
\* "14:30 IST" gives 14, "2pm-ish" gives 2.
C3_HourDerivation ==
    Cleaned /\ Has(RawN, cTime) =>
        IF TimeParsed THEN ParsedHourRule
        ELSE \A i \in 1..NRows(raw) : Col(df, cHour)[i] = FirstDigits(RawText(cTime, i))

\* a run that fell back to the text of "2pm-ish" and "14:30 IST"
C3_Witness ==
    /\ Cleaned /\ Has(RawN, cTime) /\ ~TimeParsed /\ NRows(raw) = 2
    /\ Col(raw, cTime)[1] = Str(<<"2", "p", "m", "-", "i", "s", "h">>)
    /\ Col(raw, cTime)[2] = Str(<<"1", "4", ":", "3", "0", " ", "I", "S", "T">>)
    /\ Col(df, cHour) = <<Whole(2), Whole(14)>>

\* C4: every Hour preprocess derives is a whole number in 0..23 or is
\* missing, so every row with an hour is counted in one of the 24 buckets
\* of the hourly series.
C4_HourInRange ==
    /\ Cleaned /\ Has(df, cHour) =>
          \A i \in 1..NRows(df) :
              IsNA(Col(df, cHour)[i]) \/ \E h \in 0..23 : Col(df, cHour)[i] = Whole(h)
    /\ pc \in {"cancel", "export", "done"} /\ Has(df, cHour) =>
          SumTo(hourly, 24) = Cardinality({i \in 1..NRows(df) : ~IsNA(Col(df, cHour)[i])})

\* the number a cell of the input holds after coercion, or NA
Coerced(c) == IF c.k = "num" \/ (c.k = "str" /\ IsNumberText(c.s)) THEN ToNumeric(c) ELSE NA

\* the halves at 0-based rank r among the coerced values of a column
AtRank(cells, r) ==
    CHOOSE v \in {Coerced(cells[i]).n : i \in {j \in 1..Len(cells) : ~IsNA(Coerced(cells[j]))}} :
        /\ Cardinality({i \in 1..Len(cells) : ~IsNA(Coerced(cells[i])) /\ Coerced(cells[i]).n < v}) <= r
        /\ Cardinality({i \in 1..Len(cells) : ~IsNA(Coerced(cells[i])) /\ Coerced(cells[i]).n <= v}) > r

HowManyCoerced(cells) == Cardinality({i \in 1..Len(cells) : ~IsNA(Coerced(cells[i]))})

\* twice the median, in halves: the sum of the two middle values
TwiceMedian(cells) ==
    AtRank(cells, (HowManyCoerced(cells) - 1) \div 2) + AtRank(cells, HowManyCoerced(cells) \div 2)

ImputedRule(name) ==
    Has(df, name) =>
        LET in == Col(RawN, name)
            out == Col(df, name)
        IN /\ Len(out) = Len(in)
           /\ \A i \in 1..Len(in) :
                 IF ~IsNA(Coerced(in[i])) THEN out[i] = Coerced(in[i])
                 ELSE IF HowManyCoerced(in) = 0 THEN IsNA(out[i])
                 ELSE out[i].k = "num" /\ 2 * out[i].n = TwiceMedian(in)

\* C5: after preprocess, in each of Booking Value, Ride Distance, Driver
\* Ratings and Customer Rating that is present, a cell that was missing or
\* failed coercion holds the median of the coerced values, a coerced cell
\* keeps its value, and none is missing when a value coerced.
C5_MedianImputation ==
    Cleaned => \A j \in 1..Len(MedianCols) : ImputedRule(MedianCols[j])

\* [10, 20, missing, 40] became [10, 20, 20, 40]
C5_Witness ==
    /\ Cleaned /\ Has(raw, cBookingValue)
    /\ Col(raw, cBookingValue) = <<Str(<<"1", "0">>), Str(<<"2", "0">>), NA, Str(<<"4", "0">>)>>
    /\ Col(df, cBookingValue) = <<Whole(10), Whole(20), Whole(20), Whole(40)>>

FlagOn(name, i) == Col(df, name)[i] = Bool(TRUE)

\* C6: after preprocess with a Booking Status column, at most one of the
\* three flags is true in a row, and a row whose status is "canceled" in
\* any letter case has the status "Cancelled", Is_Cancelled true and the
\* other two flags false.
C6_StatusFlags ==
    Cleaned /\ Has(RawN, cStatus) =>
        \A i \in 1..NRows(raw) :
            /\ Cardinality({f \in {cIsCompleted, cIsCancelled, cIsIncomplete} : FlagOn(f, i)}) <= 1
            /\ StrLower(RawText(cStatus, i)) = StrLower(Canceled) =>
                  /\ Col(df, cStatus)[i] = Str(Cancelled)
                  /\ FlagOn(cIsCancelled, i)
                  /\ ~FlagOn(cIsCompleted, i) /\ ~FlagOn(cIsIncomplete, i)

\* a row "CANCELED" was normalised and flagged
C6_Witness ==
    /\ Cleaned /\ Has(raw, cStatus) /\ NRows(raw) >= 1
    /\ Col(raw, cStatus)[1] = Str(<<"C", "A", "N", "C", "E", "L", "E", "D">>)
    /\ Col(df, cStatus)[1] = Str(Cancelled) /\ FlagOn(cIsCancelled, 1)

\* C7: with both location columns present, each Route is the pickup
\* value, " -> " written with the arrow U+2192, and the drop value, a
\* missing end replaced by "Unknown".
C7_RouteWithArrow ==
    Cleaned /\ RouteWanted(RawN) =>
        \A i \in 1..NRows(raw) :
            Col(df, cRoute)[i] =
                Str(OrUnknown(Col(RawN, cPickup)[i]).s \o Arrow \o OrUnknown(Col(RawN, cDrop)[i]).s)

SameColumn(t, u, name) == Has(t, name) => Has(u, name) /\ Col(u, name) = Col(t, name)

\* C8: preprocess applied to its own output returns, and changes no
\* column name, no parsed Date and no coerced or imputed number.
C8_Idempotent ==
    Cleaned =>
        /\ preprocess(df).ok
        /\ ColumnNames(preprocess(df).t) = ColumnNames(df)
        /\ SameColumn(df, preprocess(df).t, cDate)
        /\ \A j \in 1..Len(NumericCols) : SameColumn(df, preprocess(df).t, NumericCols[j])

\* a cleaned table with a parsed date, a renamed alias and an imputed number
C8_Witness ==
    /\ Cleaned /\ Has(df, cDate) /\ Has(df, cBookingValue) /\ Has(raw, aDate)
    /\ \E i \in 1..NRows(df) : Col(df, cDate)[i].k = "dt"
    /\ preprocess(df).ok

InTrace(e) == \E i \in 1..Len(trace) : trace[i] = e

\* C9: the default decoding is tried first and Latin-1 only after it
\* failed; when Latin-1 fails too the run reports the error and stops
\* without running preprocess, a tab or the export; when an attempt
\* succeeds the run goes on with that table.
C9_Ingestion ==
    /\ InTrace("latin1") =>
          /\ Len(trace) >= 2 /\ trace[1] = "default" /\ trace[2] = "latin1"
          /\ ~ReadDefaultOk(content)
    /\ InTrace("default") => trace[1] = "default"
    /\ pc = "readfailed" \/ InTrace("error") =>
          /\ ~ReadDefaultOk(content) /\ ~ReadLatin1Ok(content)
          /\ ~InTrace("clean") /\ ~InTrace("tabs") /\ ~InTrace("export")
          /\ df = <<>> /\ cancelCust = <<>> /\ cancelDrv = <<>> /\ hourly = <<>>
    /\ InTrace("error") => pc = "stopped" /\ trace = <<"default", "latin1", "error">>
    /\ InTrace("clean") \/ pc = "clean" =>
          /\ ReadLatin1Ok(content) /\ raw = content.table
          /\ trace[1] = "hit" \/ (trace[1] = "default" /\ ReadDefaultOk(content))
                \/ (trace[1] = "default" /\ trace[2] = "latin1")
    /\ pc = "latin1" => ~ReadDefaultOk(content)

\* a run stopped on the error of a file neither decoding reads
C9_Witness == pc = "stopped" /\ trace = <<"default", "latin1", "error">>

\* C10 as stated: on the same bytes both the read and the cleaning pass
\* are executed at most once in the process.
C10_BothAtMostOnce == readExec <= 1 /\ cleanExec <= 1

\* C10, amended: on the same bytes the body of the read is executed at
\* most once when the read succeeds, and every later run takes the table
\* from the cache (a failed read is not cached and is tried again in every
\* run); the cleaning pass is not cached: preprocess is executed once in
\* every run that obtains a table.
C10_ReadOnceCleanEveryRun ==
    /\ ReadLatin1Ok(content) => readExec <= 1
    /\ ReadLatin1Ok(content) /\ tableRuns >= 2 /\ pc = "clean" => trace = <<"hit">>
    /\ ~ReadLatin1Ok(content) => cache = {} /\ tableRuns = 0
    /\ pc \in Resting \ {"new"} => cleanExec = tableRuns
    /\ pc = "clean" => cleanExec + 1 = tableRuns

\* the second run on the same bytes: the table came from the cache and
\* preprocess ran again
C10_Witness == pc = "done" /\ readExec = 1 /\ cleanExec = 2 /\ InTrace("hit")

=============================================================================
